---- MODULE Spec2Model ----
(***************************************************************************)
(* Model of the three versions of the PCP report orchestrator:             *)
(*   "base" = pcp_layout.py, "v1" = pcp_layout_v1.py, "v2" = pcp_layout_v2.py *)
(* One run of the script is a sequential process whose position is pc.     *)
(* Strings the code inspects character by character (the time strings) are *)
(* sequences of characters (see Chr); a path is a sequence of atoms: the    *)
(* separator "/", whitespace characters and chunks free of both.           *)
(***************************************************************************)
EXTENDS Naturals, Sequences, FiniteSets, TLC

VARIABLES
    version,      \* which script is run: "base", "v1" or "v2"
    cmdline,      \* len(sys.argv) == 4
    given,        \* what the user supplies: [archive, start, end] (argv or typed lines)
    env,          \* environment: [missing: tools not on PATH, config: CONFIG_FILE exists,
                  \*   clock: datetime.now() to the second, prev: the earlier invocation]
    pc,           \* position of the run
    archive,      \* main's local archive / logname
    start_time,   \* main's local start_time / stime
    end_time,     \* main's local end_time / etime
    OUTPUT_DIR,   \* output directory name (Unset until assigned)
    ERROR_LOG,    \* error log path (Unset until assigned)
    dirs,         \* file system: existing directories -> run that created them
    files,        \* file system: existing files -> run that last opened them for writing
    errLog,       \* lines this run appended to its error log, counted per kind
    console,      \* lines this run printed (stdout and stderr), counted per kind
    summary,      \* the k/N counts printed by the summary (<<>> when none is printed)
    idx,          \* number of report descriptors attempted so far
    success,      \* main's success counter
    exitStatus,   \* status the process ends with (0 unless sys.exit or an exception
                  \* sets it); it is the exit status once pc = "exited"
    cause,        \* why the run ended
    last,         \* the last run_command call: [n, opened, ran, outcome, stderr]
    openFailed,   \* the descriptors whose output file could not be opened
    exit0,        \* number of report commands that exited 0
    reportsRun,   \* number of report commands handed to the shell
    extCmds,      \* number of external commands handed to the shell (metadata included)
    running,      \* how many commands are still running after the step that
                  \*   started them: [meta: the metadata command, report: commands
                  \*   of report descriptors]
    faults,       \* number of things that went wrong by chance so far (see MaxAbnormal)
    logFaults     \* number of times the error log could not be opened for appending

vars == <<version, cmdline, given, env, pc, archive, start_time, end_time,
          OUTPUT_DIR, ERROR_LOG, dirs, files, errLog, console, summary, idx,
          success, exitStatus, cause, last, openFailed, exit0, reportsRun,
          extCmds, running, faults, logFaults>>

----------------------------------------------------------------------------
(* Bounds *)

\* at most this many things go wrong by chance in one run (faults): an
\* external command misbehaves (anything other than: output file opens,
\* command exits 0, nothing on standard error), or one attempt to open the
\* error log for appending fails.  Failures the surroundings force, a tool that
\* is not installed or a directory that does not exist, are not counted.
MaxAbnormal == 2

(* Program constants *)

\* length of the metrics / reports list (13 entries in every version)
NumReports == 13

Versions == {"base", "v1", "v2"}
Required == {"pmdumplog", "pmrep", "pcp"}

\* the value of a local of main that has not been assigned yet
Unset == <<"?unset">>

----------------------------------------------------------------------------
(* Strings *)

\* A character is a one-character string.  A character that cannot be written
\* in a string here (a control character other than \t \n \f \r, or any
\* character outside ASCII) is written "#" followed by its code point in
\* decimal: "#1632" is U+0660 ARABIC-INDIC DIGIT ZERO, "#11" is \x0b.
Chr(n) == "#" \o ToString(n)

AsciiDigits == {"0", "1", "2", "3", "4", "5", "6", "7", "8", "9"}

\* the code point of the digit zero of every run of ten decimal digits outside
\* ASCII (Unicode category Nd, as the interpreter's re module knows it)
DigitZeros ==
    {1632, 1776, 1984, 2406, 2534, 2662, 2790, 2918, 3046, 3174, 3302, 3430,
     3558, 3664, 3792, 3872, 4160, 4240, 6112, 6160, 6470, 6608, 6784, 6800,
     6992, 7088, 7232, 7248, 42528, 43216, 43264, 43472, 43504, 43600, 44016,
     65296, 66720, 68912, 69734, 69872, 69942, 70096, 70384, 70736, 70864,
     71248, 71360, 71472, 71904, 72016, 72784, 73040, 73120, 92768, 92864,
     93008, 120782, 120792, 120802, 120812, 120822, 123200, 123632, 125264,
     130032}

\* \d of a str pattern without re.ASCII: every Unicode decimal digit
Digits == AsciiDigits \cup {Chr(z + k) : z \in DigitZeros, k \in 0..9}

\* the characters str.strip() removes: those for which str.isspace() holds
Whitespace ==
    {" ", "\t", "\n", "\r", "\f"}
    \cup {Chr(n) : n \in {11, 28, 29, 30, 31, 133, 160, 5760} \cup (8192..8202)
                          \cup {8232, 8233, 8239, 8287, 12288}}

\* "2026-01-22 12:00"
T_1200 == <<"2","0","2","6","-","0","1","-","2","2"," ","1","2",":","0","0">>
\* "2026-01-22 12:10"
T_1210 == <<"2","0","2","6","-","0","1","-","2","2"," ","1","2",":","1","0">>
\* "2026-01-22 12:00:30"
T_1200_30 == T_1200 \o <<":","3","0">>
\* "2026-1-22 12:00"
T_bad == <<"2","0","2","6","-","1","-","2","2"," ","1","2",":","0","0">>

\* str.strip(): leading and trailing whitespace removed
RECURSIVE lstrip(_)
lstrip(s) == IF s # <<>> /\ Head(s) \in Whitespace THEN lstrip(Tail(s)) ELSE s

RECURSIVE rstrip(_)
rstrip(s) ==
    IF s # <<>> /\ s[Len(s)] \in Whitespace THEN rstrip(SubSeq(s, 1, Len(s) - 1)) ELSE s

strip(s) == rstrip(lstrip(s))

\* The regular expressions, as sequences of items: "d" is \d, anything else a literal.
DatePattern == <<"d","d","d","d","-","d","d","-","d","d"," ","d","d",":","d","d">>
SecPattern == <<":","d","d">>

\* pattern pat matches s at position pos (1-based)
MatchAt(pat, s, pos) ==
    /\ Len(s) >= pos + Len(pat) - 1
    /\ \A i \in 1..Len(pat) :
          IF pat[i] = "d" THEN s[pos + i - 1] \in Digits ELSE s[pos + i - 1] = pat[i]

\* "$" without re.MULTILINE: at the end of the string, or just before a
\* newline that is the last character
AtDollar(s, pos) ==
    \/ pos = Len(s) + 1
    \/ pos = Len(s) /\ s[pos] = "\n"

\* base: re.match(r"^\d{4}-\d{2}-\d{2} \d{2}:\d{2}$", timestr) is not None
validate_time_base(timestr) ==
    /\ MatchAt(DatePattern, timestr, 1)
    /\ AtDollar(timestr, Len(DatePattern) + 1)

\* v1, v2: bool(re.match(r"^\d{4}-\d{2}-\d{2} \d{2}:\d{2}(:\d{2})?$", timestr))
validate_time(timestr) ==
    /\ MatchAt(DatePattern, timestr, 1)
    /\ \/ /\ MatchAt(SecPattern, timestr, Len(DatePattern) + 1)
          /\ AtDollar(timestr, Len(DatePattern) + Len(SecPattern) + 1)
       \/ AtDollar(timestr, Len(DatePattern) + 1)

\* re.sub(r"[- :]", "", timestr)
cleaned(timestr) == SelectSeq(timestr, LAMBDA c : c \notin {"-", " ", ":"})

\* Python slice s[a:b] with 0 <= a <= b: clipped to the string
Slice(s, a, b) ==
    LET hi == IF b < Len(s) THEN b ELSE Len(s)
    IN  IF a >= hi THEN <<>> ELSE SubSeq(s, a + 1, hi)

\* time_to_dir_format with the minute left out of the name (DDMMYYYYHH)
time_to_dir_format_no_minute(timestr) ==
    IF timestr = <<>> THEN <<"unknown">>
    ELSE LET c == cleaned(timestr)
         IN  Slice(c, 6, 8) \o Slice(c, 4, 6) \o Slice(c, 0, 4) \o Slice(c, 8, 10)

\* v2: '2026-01-26 12:05' -> '260120261205' (DDMMYYYYHHMM)
time_to_dir_format(timestr) ==
    IF timestr = <<>> THEN <<"unknown">>
    ELSE LET c == cleaned(timestr)
         IN  Slice(c, 6, 8) \o Slice(c, 4, 6) \o Slice(c, 0, 4)
                 \o Slice(c, 8, 10) \o Slice(c, 10, 12)

----------------------------------------------------------------------------
(* Console and error-log contents: number of lines of each kind *)

Kinds == {"listing", "meta_output", "banner", "section", "saved", "title", "OK",
          "FAILED", "complete", "summary", "see_log", "traceback", "interrupted",
          "unexpected", "header", "stderr_raw",
          "archive_not_found", "bad_start", "bad_end", "bad_time",
          "tool_missing", "install_hint", "config_missing",
          "meta_failed", "meta_timeout", "meta_exception",
          "cmd_failed", "stderr_label", "cmd_stderr", "cmd_timeout",
          "cmd_exception", "cmd_exception_detail"}

NoLines == [k \in Kinds |-> 0]

\* the lines msgs (a sequence of kinds) added to a console or a file
RECURSIVE Put(_, _)
Put(lines, msgs) ==
    IF msgs = << >> THEN lines
    ELSE Put([lines EXCEPT ![Head(msgs)] = @ + 1], Tail(msgs))

\* The fates of the appends of one step: the error log is opened anew for
\* every append, and fates[i] says whether the i-th open of the step succeeds
Fates(n) == [1..n -> BOOLEAN]

\* the number of appends of fates that fail
Failures(fates) == Cardinality({i \in DOMAIN fates : ~fates[i]})

\* log_error that prints and does not append to the error log
log_error_print_only(ver, con, log, msgs, fates) ==
    [console |-> Put(con, msgs), errLog |-> log, raised |-> FALSE, calls |-> Len(msgs)]

\* log_error(msg) for each msg of msgs, in order, the i-th call with the fate
\* fates[i]: msg is printed, then the error log is opened for appending and
\* msg is written.  When the open fails the message has been printed: v2
\* swallows the exception (try / except: pass) and goes on to the next call;
\* base and v1 have no handler, the exception leaves log_error and the
\* messages after it are not reached.  calls is the number of calls made.
RECURSIVE log_error(_, _, _, _, _)
log_error(ver, con, log, msgs, fates) ==
    IF msgs = << >>
    THEN [console |-> con, errLog |-> log, raised |-> FALSE, calls |-> 0]
    ELSE LET printed == Put(con, <<Head(msgs)>>)
         IN  IF ~Head(fates) /\ ver # "v2"
             THEN [console |-> printed, errLog |-> log, raised |-> TRUE, calls |-> 1]
             ELSE LET r == log_error(ver, printed,
                                     IF Head(fates) THEN Put(log, <<Head(msgs)>>) ELSE log,
                                     Tail(msgs), Tail(fates))
                  IN  [r EXCEPT !.calls = @ + 1]

----------------------------------------------------------------------------
(* Paths *)

\* os.path.join(dir, name)
join(dir, name) == dir \o <<"/">> \o name

\* str.replace(' ', '_')
replace_space(s) == [i \in 1..Len(s) |-> IF s[i] = " " THEN "_" ELSE s[i]]

\* OUTPUT_DIR: fixed in base and v1, named after the time window in v2
OutputDirOf(ver, stime, etime) ==
    IF ver = "v2"
    THEN <<"pcp_analysis-">> \o time_to_dir_format(stime) \o <<"-">>
             \o time_to_dir_format(etime)
    ELSE <<"pcp_analysis">>

\* ERROR_LOG: errors.log (base), errors_<TIMESTAMP>.log (v1), errors (v2)
ErrorLogOf(ver, dir, ts) ==
    CASE ver = "base" -> join(dir, <<"errors.log">>)
      [] ver = "v1"   -> join(dir, <<"errors_", ts, ".log">>)
      [] ver = "v2"   -> join(dir, <<"errors">>)

\* the output file names of the 13 report descriptors, in list order
BaseNames == <<"PMDUMPLOG", "Load.txt", "Atop.txt", "Mpstat.txt", "Memory.txt",
               "Iostat.txt", "Vmstat.txt", "D_state_Blocked.txt", "Netstat.txt",
               "PS.txt", "PID_STAT.txt", "Slabinfo.txt", "Numastat.txt">>
V1Names == <<"00_pmdumplog_", "01_load_", "02_atop_", "03_mpstat_", "04_memory_",
             "05_iostat_", "06_vmstat_", "07_runq_blocked_", "08_netstat_",
             "09_ps_", "10_pidstat_", "11_slabinfo_", "12_numastat_">>
V2Names == <<"pcp-archive-label", "pcp-load", "pcp-atop", "pcp-mpstat", "pcp-memory",
             "pcp-iostat", "pcp-vmstat", "pcp-runq-blocked", "pcp-netstat", "pcp-ps",
             "pcp-pidstat", "pcp-slabinfo", "pcp-numastat">>

\* the output file name of descriptor i
ReportName(ver, i, logname, ts) ==
    CASE ver = "base" ->
            IF i = 1 THEN <<"PMDUMPLOG_">> \o replace_space(logname) \o <<".txt">>
            ELSE <<BaseNames[i]>>
      [] ver = "v1" -> <<V1Names[i], ts, ".log">>
      [] ver = "v2" -> <<V2Names[i]>>

\* out_path of descriptor i
ReportPathOf(ver, dir, i, logname, ts) == join(dir, ReportName(ver, i, logname, ts))

----------------------------------------------------------------------------
(* Environment *)

\* the regular files the working directory holds apart from what the script
\* itself writes, in this invocation or in an earlier one
ExistingFiles == {<<"demo.xz">>}

\* the working directory, as the list of its components: /work
Cwd == << <<"work">> >>

\* the components of a path: its chunks between separators
RECURSIVE components(_)
components(path) ==
    LET seps == {i \in 1..Len(path) : path[i] = "/"}
    IN  IF seps = {} THEN <<path>>
        ELSE LET i == CHOOSE k \in seps : \A j \in seps : k <= j
             IN  <<SubSeq(path, 1, i - 1)>> \o components(SubSeq(path, i + 1, Len(path)))

\* what a path that cannot be followed names
Nowhere == << <<"?nowhere">> >>

\* the directory with the absolute components st exists: the working
\* directory, one of its ancestors, or a directory in it
IsDir(st) ==
    \/ Len(st) <= Len(Cwd) /\ st = SubSeq(Cwd, 1, Len(st))
    \/ /\ Len(st) = Len(Cwd) + 1
       /\ SubSeq(st, 1, Len(Cwd)) = Cwd
       /\ st[Len(st)] \in DOMAIN dirs

\* Path resolution as the system does it for open and stat: from the
\* directory st the components cs are followed one by one; "" and "." stay,
\* ".." goes up, every directory on the way has to exist, and the last
\* component has to be a name.  The result is the absolute component list.
RECURSIVE walk(_, _)
walk(st, cs) ==
    LET c == Head(cs)
        nxt == CASE c \in {<< >>, <<".">>} -> st
                 [] c = <<"..">> -> IF st = << >> THEN st ELSE SubSeq(st, 1, Len(st) - 1)
                 [] OTHER -> Append(st, c)
    IN  IF Len(cs) = 1
        THEN IF c \in {<< >>, <<".">>, <<"..">>} THEN Nowhere ELSE nxt
        ELSE IF IsDir(nxt) THEN walk(nxt, Tail(cs)) ELSE Nowhere

resolve(path) ==
    IF path = << >> THEN Nowhere
    ELSE walk(IF Head(path) = "/" THEN << >> ELSE Cwd, components(path))

\* os.path.isfile(name), asked of the file system as it is at the call: the
\* name resolves to one of the files above, to a file an earlier invocation
\* left or to a file this run has created so far
isfile(name) ==
    resolve(name) \in {Cwd \o components(p) : p \in ExistingFiles \cup DOMAIN files}

\* open(path, "w") succeeds: the directory the file is to be in exists, and
\* the path does not name a directory
CanOpen(path) == resolve(path) # Nowhere /\ ~IsDir(resolve(path))

\* archive names given as an argument: none, a file that does not exist, the
\* archive, and "./pcp_analysis/errors.log", the error log that base creates
\* when it is loaded
ArchiveInputs == {<<>>, <<"nofile">>, <<"demo.xz">>,
                  <<".", "/", "pcp_analysis", "/", "errors.log">>}

\* archive names typed at the prompt: none, a file that does not exist, and
\* the archive followed by a form feed
TypedArchives == {<<>>, <<"nofile">>, <<"demo.xz", "\f">>}
StartInputs == {T_1200, T_bad}
EndInputs == {T_1210, T_bad}
\* tools that shutil.which does not find, and whether CONFIG_FILE exists
Surroundings == {[missing |-> {}, config |-> TRUE],
                 [missing |-> {}, config |-> FALSE],
                 [missing |-> {"pmrep", "pcp"}, config |-> TRUE]}
\* the same for the invocations that prompt: the metadata command they run
\* needs pmdumplog
TypedSurroundings == {[missing |-> {}, config |-> TRUE],
                      [missing |-> {"pmdumplog"}, config |-> TRUE]}

\* Time strings for the validation check: two well-formed strings and every
\* string one edit away from them (one character replaced, removed, appended
\* or prepended), and the empty string
EditChars == {"0", "9", "x", "-", " ", ":", "\n", Chr(1632)}
WellFormed == {T_1200, T_1200_30}
Edits(b) ==
    {[b EXCEPT ![i] = c] : i \in 1..Len(b), c \in EditChars}
    \cup {SubSeq(b, 1, i - 1) \o SubSeq(b, i + 1, Len(b)) : i \in 1..Len(b)}
    \cup {b \o <<c>> : c \in EditChars}
    \cup {<<c>> \o b : c \in EditChars}
TimeStrings == WellFormed \cup {<< >>} \cup UNION {Edits(b) : b \in WellFormed}

\* an earlier, completed invocation of the same script on demo.xz, or none
NoPrev == [clock |-> "none", start |-> <<>>, end |-> <<>>]
PrevChoices == {NoPrev,
                [clock |-> "20260122_120000", start |-> T_1200, end |-> T_1210],
                [clock |-> "20260122_115959", start |-> T_1210, end |-> T_1210]}

\* datetime.now().strftime("%Y%m%d_%H%M%S") of the current invocation
Now == "20260122_120000"

\* the directory and the files a completed earlier invocation left behind
PrevDir(ver, prev) == OutputDirOf(ver, prev.start, prev.end)

PrevFiles(ver, prev) ==
    IF prev = NoPrev THEN {}
    ELSE {ErrorLogOf(ver, PrevDir(ver, prev), prev.clock)}
         \cup {ReportPathOf(ver, PrevDir(ver, prev), i, <<"demo.xz">>, prev.clock) :
                 i \in 1..NumReports}

----------------------------------------------------------------------------
(* The run *)

NoCall == [n |-> 0, opened |-> FALSE, ran |-> FALSE, outcome |-> "none", stderr |-> FALSE]

\* a function extended or overwritten at one point
Bind(f, x, v) == [y \in DOMAIN f \cup {x} |-> IF y = x THEN v ELSE f[y]]

\* os.makedirs(d, exist_ok=True)
makedirs(ds, d) == IF d \in DOMAIN ds THEN ds ELSE Bind(ds, d, 1)

\* open(path, "w"): the file is created, or truncated, by this run
open_w(fs, path) == Bind(fs, path, 1)

TIMESTAMP == env.clock

\* The state when the interpreter starts the script, for the given choices of
\* mode, inputs and environment
InitOf(modes, archives, starts, ends, surroundings, prevs) ==
    /\ version \in Versions
    /\ cmdline \in modes
    /\ given \in [archive : archives, start : starts, end : ends]
    /\ \E sur \in surroundings, prev \in prevs :
          env = [missing |-> sur.missing, config |-> sur.config, clock |-> Now,
                 prev |-> prev]
    /\ pc = "module"
    /\ archive = Unset
    /\ start_time = Unset
    /\ end_time = Unset
    /\ OUTPUT_DIR = Unset
    /\ ERROR_LOG = Unset
    /\ dirs = IF env.prev = NoPrev THEN << >>
              ELSE [d \in {PrevDir(version, env.prev)} |-> 0]
    /\ files = [p \in PrevFiles(version, env.prev) |-> 0]
    /\ errLog = NoLines
    /\ console = NoLines
    /\ summary = << >>
    /\ idx = 0
    /\ success = 0
    /\ exitStatus = 0
    /\ cause = "running"
    /\ last = NoCall
    /\ openFailed = {}
    /\ exit0 = 0
    /\ reportsRun = 0
    /\ extCmds = 0
    /\ running = [meta |-> 0, report |-> 0]
    /\ faults = 0
    /\ logFaults = 0

\* a first invocation in an empty working directory, any inputs
Init ==
    \/ InitOf({TRUE}, ArchiveInputs, StartInputs, EndInputs, Surroundings, {NoPrev})
    \/ InitOf({FALSE}, TypedArchives, StartInputs, EndInputs, TypedSurroundings, {NoPrev})

\* a command-line invocation on demo.xz in which one of the two time strings
\* is any string of TimeStrings
InitTimes ==
    \/ InitOf({TRUE}, {<<"demo.xz">>}, TimeStrings, {T_1210},
              {[missing |-> {}, config |-> TRUE]}, {NoPrev})
    \/ InitOf({TRUE}, {<<"demo.xz">>}, {T_1200}, TimeStrings,
              {[missing |-> {}, config |-> TRUE]}, {NoPrev})

\* archive names of a second invocation of a version: the archive, or a
\* report that an earlier invocation of that version left behind
AgainArchives(ver) ==
    {<<"demo.xz">>,
     ReportPathOf(ver, OutputDirOf(ver, T_1200, T_1210), 2, <<"demo.xz">>, Now)}

\* a command-line invocation with valid times after an earlier invocation of
\* the same script: on the archive, after any earlier invocation; or on a
\* report of the earlier invocation, when that one started in the same second
InitAgain ==
    \/ InitOf({TRUE}, {<<"demo.xz">>}, {T_1200, T_1200_30}, {T_1210},
              {[missing |-> {}, config |-> TRUE]}, PrevChoices \ {NoPrev})
    \/ /\ InitOf({TRUE}, UNION {AgainArchives(ver) : ver \in Versions} \ {<<"demo.xz">>},
                 {T_1200}, {T_1210},
                 {[missing |-> {}, config |-> TRUE]},
                 {prev \in PrevChoices : prev.clock = Now})
       /\ given.archive \in AgainArchives(version)

\* sys.exit(status) from main
Exit(status, why) ==
    /\ pc' = "exited"
    /\ exitStatus' = status
    /\ cause' = why

\* An exception leaves main(): exc is "interrupt" (KeyboardInterrupt) or
\* "exception" (any Exception).  v1 and v2 catch both at the __main__ guard;
\* base has no handler: the interpreter prints a traceback and ends with
\* status 1, or, for KeyboardInterrupt on Python 3.8 and later, by SIGINT (130).
TopLevel(exc, con) ==
    /\ pc' = "exited"
    /\ cause' = exc
    /\ IF version = "base"
       THEN /\ console' = Put(con, <<"traceback">>)
            /\ exitStatus' \in (IF exc = "interrupt" THEN {1, 130} ELSE {1})
       ELSE /\ console' = Put(con, <<IF exc = "interrupt" THEN "interrupted"
                                                            ELSE "unexpected">>)
            /\ exitStatus' = IF exc = "interrupt" THEN 130 ELSE 1

\* what input() does: a line is read, the user interrupts, or stdin is at EOF
InputEvents == {"line", "interrupt", "eof"}

\* Module level of base and v1: the output directory and the error log are
\* created when the script is loaded, before main() runs.  v2 only defines
\* its functions.
ModuleInit ==
    /\ pc = "module"
    /\ pc' = "main"
    /\ IF version = "v2"
       THEN UNCHANGED <<OUTPUT_DIR, ERROR_LOG, dirs, files, errLog>>
       ELSE LET dir == OutputDirOf(version, Unset, Unset)
                log == ErrorLogOf(version, dir, TIMESTAMP)
            IN  /\ OUTPUT_DIR' = dir
                /\ ERROR_LOG' = log
                /\ dirs' = makedirs(dirs, dir)
                /\ files' = open_w(files, log)
                /\ errLog' = IF version = "v1" THEN Put(NoLines, <<"header">>)
                                               ELSE NoLines
    /\ UNCHANGED <<openFailed, version, cmdline, given, env, archive, start_time, end_time,
                   console, summary, idx, success, exitStatus, cause, last,
                   exit0, reportsRun, extCmds, running, faults, logFaults>>

\* main, command-line mode: archive, start_time, end_time = sys.argv[1:4]
ReadArgs ==
    /\ pc = "main"
    /\ cmdline
    /\ archive' = given.archive
    /\ start_time' = given.start
    /\ end_time' = given.end
    /\ pc' = "validate"
    /\ UNCHANGED <<openFailed, version, cmdline, given, env, OUTPUT_DIR, ERROR_LOG, dirs, files,
                   errLog, console, summary, idx, success, exitStatus, cause, last,
                   exit0, reportsRun, extCmds, running, faults, logFaults>>

\* main, interactive mode: the directory listing and the archive prompt
PromptArchive ==
    /\ pc = "main"
    /\ ~cmdline
    /\ \E ev \in InputEvents :
          IF ev = "line"
          THEN /\ archive' = strip(given.archive)
               /\ console' = Put(console, <<"listing">>)
               /\ pc' = IF version = "base" THEN "prompt_start" ELSE "metadata"
               /\ UNCHANGED <<exitStatus, cause>>
          ELSE /\ TopLevel(IF ev = "eof" THEN "exception" ELSE ev,
                           Put(console, <<"listing">>))
               /\ UNCHANGED archive
    /\ UNCHANGED <<openFailed, version, cmdline, given, env, start_time, end_time, OUTPUT_DIR,
                   ERROR_LOG, dirs, files, errLog, summary, idx, success, last,
                   exit0, reportsRun, extCmds, running, faults, logFaults>>

\* what the eagerly run "pmdumplog -z -L" does (v1, v2, interactive mode):
\* it exits, is not over after 60 s, cannot be spawned, ends with output that
\* is no text in the locale's encoding (communicate raises), or the user
\* interrupts the wait, which ends the command too ("interrupt") or leaves
\* it running ("interrupt_alive": nothing in the script kills it)
MetaEvents == {"exit0", "nonzero", "timeout", "spawn_exc", "decode_exc", "interrupt",
               "interrupt_alive"}

\* v1, v2, interactive mode: the archive label is shown before the time
\* prompts.  v1 passes every failure to log_error; v2 prints only.
ReadMetadata ==
    /\ pc = "metadata"
    /\ \E ev \in MetaEvents :
          LET noTool == "pmdumplog" \in env.missing
              interrupted == ev \in {"interrupt", "interrupt_alive"}
              shown ==
                 CASE ev = "exit0"     -> <<"meta_output">>
                   [] ev = "nonzero"   -> IF version = "v1"
                                          THEN <<"meta_failed", "meta_output">>
                                          ELSE <<"meta_output">>
                   [] ev = "timeout"   -> <<"meta_timeout">>
                   [] ev \in {"spawn_exc", "decode_exc"} -> <<"meta_exception">>
                   [] OTHER -> << >>
              logged ==
                 IF version # "v1" THEN << >>
                 ELSE CASE ev = "nonzero"   -> <<"meta_failed">>
                        [] ev = "timeout"   -> <<"meta_timeout">>
                        [] ev \in {"spawn_exc", "decode_exc"} -> <<"meta_exception">>
                        [] OTHER -> << >>
              \* v1, non-zero exit: log_error is called inside the try block
              inTry == version = "v1" /\ ev = "nonzero"
              need == Len(logged) + (IF inTry THEN 1 ELSE 0)
              \* a tool that is not installed: the shell exits with 127
              forced == noTool /\ ev = "nonzero"
              cmdcost == IF ev = "exit0" \/ forced THEN 0 ELSE 1
          IN  /\ noTool => ev \in {"nonzero", "spawn_exc", "interrupt"}
              /\ faults + cmdcost <= MaxAbnormal
              /\ \E fates \in Fates(need) :
                    LET r1 == log_error(version, Put(console, shown), errLog, logged, fates)
                        \* what log_error raises inside the try block is caught
                        \* by "except Exception", which prints and calls
                        \* log_error in turn
                        r == IF r1.raised /\ inTry
                             THEN LET r2 == log_error(version,
                                                      Put(r1.console, <<"meta_exception">>),
                                                      r1.errLog, <<"meta_exception">>,
                                                      SubSeq(fates, r1.calls + 1, need))
                                  IN  [r2 EXCEPT !.calls = @ + r1.calls]
                             ELSE r1
                        failed == Failures(fates)
                    IN  /\ \A i \in (r.calls + 1)..need : fates[i]
                        /\ faults + cmdcost + failed <= MaxAbnormal
                        /\ faults' = faults + cmdcost + failed
                        /\ logFaults' = logFaults + failed
                        /\ errLog' = r.errLog
                        /\ IF interrupted
                           THEN TopLevel("interrupt", console)
                           ELSE IF r.raised
                           THEN TopLevel("exception", r.console)
                           ELSE /\ pc' = "prompt_start"
                                /\ console' = r.console
                                /\ UNCHANGED <<exitStatus, cause>>
              /\ extCmds' = IF ev = "spawn_exc" THEN extCmds ELSE extCmds + 1
              \* communicate(timeout=60) gives up waiting, and an interrupt ends
              \* the wait; neither ends the command
              /\ running' = IF ev \in {"timeout", "interrupt_alive"}
                            THEN [running EXCEPT !.meta = @ + 1] ELSE running
    /\ UNCHANGED <<openFailed, version, cmdline, given, env, archive, start_time, end_time,
                   OUTPUT_DIR, ERROR_LOG, dirs, files, summary, idx, success, last,
                   exit0, reportsRun>>

\* interactive mode: the start-time prompt
PromptStart ==
    /\ pc = "prompt_start"
    /\ \E ev \in InputEvents :
          IF ev = "line"
          THEN /\ start_time' = strip(given.start)
               /\ pc' = "prompt_end"
               /\ UNCHANGED <<console, exitStatus, cause>>
          ELSE /\ TopLevel(IF ev = "eof" THEN "exception" ELSE ev, console)
               /\ UNCHANGED start_time
    /\ UNCHANGED <<openFailed, version, cmdline, given, env, archive, end_time, OUTPUT_DIR,
                   ERROR_LOG, dirs, files, errLog, summary, idx, success, last,
                   exit0, reportsRun, extCmds, running, faults, logFaults>>

\* interactive mode: the end-time prompt
PromptEnd ==
    /\ pc = "prompt_end"
    /\ \E ev \in InputEvents :
          IF ev = "line"
          THEN /\ end_time' = strip(given.end)
               /\ pc' = "validate"
               /\ UNCHANGED <<console, exitStatus, cause>>
          ELSE /\ TopLevel(IF ev = "eof" THEN "exception" ELSE ev, console)
               /\ UNCHANGED end_time
    /\ UNCHANGED <<openFailed, version, cmdline, given, env, archive, start_time, OUTPUT_DIR,
                   ERROR_LOG, dirs, files, errLog, summary, idx, success, last,
                   exit0, reportsRun, extCmds, running, faults, logFaults>>

\* "not archive or not os.path.isfile(archive)" is false
ArchiveOk(name) == name # << >> /\ isfile(name)

\* the version's validate_time
TimeOk(ver, timestr) ==
    IF ver = "base" THEN validate_time_base(timestr) ELSE validate_time(timestr)

\* the validation block without the check of the end time
Verdict_start_only(ver, name, stime, etime) ==
    CASE ~ArchiveOk(name)   -> "archive_not_found"
      [] ArchiveOk(name) /\ ~TimeOk(ver, stime) ->
            IF ver = "base" THEN "bad_start" ELSE "bad_time"
      [] OTHER -> "ok"

\* main's validation block: the diagnostic it ends with, or "ok"
Verdict(ver, name, stime, etime) ==
    CASE ~ArchiveOk(name)   -> "archive_not_found"
      [] ArchiveOk(name) /\ ~TimeOk(ver, stime) ->
            IF ver = "base" THEN "bad_start" ELSE "bad_time"
      [] ArchiveOk(name) /\ TimeOk(ver, stime) /\ ~TimeOk(ver, etime) ->
            IF ver = "base" THEN "bad_end" ELSE "bad_time"
      [] OTHER -> "ok"

\* main: validation of the archive and of the two time strings.  base and v1
\* report through log_error, and sys.exit(1) follows unless log_error raises;
\* v2 has no error log yet and prints only.
Validate ==
    /\ pc = "validate"
    /\ LET v == Verdict(version, archive, start_time, end_time)
           logged == IF v # "ok" /\ version # "v2" THEN <<v>> ELSE << >>
       IN  \E fates \in Fates(Len(logged)) :
              LET r == log_error(version, console, errLog, logged, fates)
                  failed == Failures(fates)
              IN  /\ faults + failed <= MaxAbnormal
                  /\ faults' = faults + failed
                  /\ logFaults' = logFaults + failed
                  /\ errLog' = r.errLog
                  /\ IF v = "ok"
                     THEN /\ pc' = IF version = "v2" THEN "setup" ELSE "toolcheck"
                          /\ UNCHANGED <<console, exitStatus, cause>>
                     ELSE IF r.raised
                     THEN TopLevel("exception", r.console)
                     ELSE /\ Exit(1, "validation")
                          /\ console' = IF version = "v2" THEN Put(console, <<v>>)
                                                          ELSE r.console
    /\ UNCHANGED <<openFailed, version, cmdline, given, env, archive, start_time, end_time,
                   OUTPUT_DIR, ERROR_LOG, dirs, files, summary, idx, success, last,
                   exit0, reportsRun, extCmds, running>>

\* base, v1: the required tools are looked up with shutil.which, then the
\* optional configuration file is looked for; both report through log_error,
\* one call per message.  v2 has no such check.
CheckTools ==
    /\ pc = "toolcheck"
    /\ LET missing == Required \cap env.missing
           logged == IF missing # {}
                     THEN (IF version = "base" THEN <<"tool_missing">>
                           ELSE <<"tool_missing", "install_hint">>)
                     ELSE (IF env.config THEN << >> ELSE <<"config_missing">>)
       IN  \E fates \in Fates(Len(logged)) :
              LET r == log_error(version, console, errLog, logged, fates)
                  failed == Failures(fates)
              IN  /\ \A i \in (r.calls + 1)..Len(logged) : fates[i]
                  /\ faults + failed <= MaxAbnormal
                  /\ faults' = faults + failed
                  /\ logFaults' = logFaults + failed
                  /\ errLog' = r.errLog
                  /\ IF r.raised
                     THEN TopLevel("exception", r.console)
                     ELSE IF missing # {}
                     THEN /\ Exit(1, "tool")
                          /\ console' = r.console
                     ELSE /\ pc' = "loop"
                          /\ console' = Put(r.console, <<"banner">>)
                          /\ UNCHANGED <<exitStatus, cause>>
    /\ UNCHANGED <<openFailed, version, cmdline, given, env, archive, start_time, end_time,
                   OUTPUT_DIR, ERROR_LOG, dirs, files, summary, idx, success, last,
                   exit0, reportsRun, extCmds, running>>

\* v2: the output directory named after the time window and its error log
\* are created once validation has passed
Setup ==
    /\ pc = "setup"
    /\ LET dir == OutputDirOf(version, start_time, end_time)
           log == ErrorLogOf(version, dir, TIMESTAMP)
       IN  /\ OUTPUT_DIR' = dir
           /\ ERROR_LOG' = log
           /\ dirs' = makedirs(dirs, dir)
           /\ files' = open_w(files, log)
    /\ errLog' = Put(NoLines, <<"header">>)
    /\ console' = Put(console, <<"banner">>)
    /\ pc' = "loop"
    /\ UNCHANGED <<openFailed, version, cmdline, given, env, archive, start_time, end_time,
                   summary, idx, success, exitStatus, cause, last, exit0,
                   reportsRun, extCmds, running, faults, logFaults>>

\* the tool each descriptor's command starts with, in list order
Tools == <<"pmdumplog", "pmrep", "pcp", "pcp", "pmrep", "pcp", "pmrep", "pmrep",
           "pcp", "pcp", "pcp", "pmrep", "pmrep">>

\* What can happen to one report command: the output file cannot be opened;
\* or it is opened and the shell command exits 0, exits non-zero, runs into
\* the 300 s timeout (v1, v2), cannot be spawned, or the user interrupts it.
\* A command that ran may have written on standard error; in v1 and v2, which
\* read standard error as text, what it wrote may be garbled: bytes that are
\* no text in the locale's encoding.  On the timeout and on an interrupt
\* subprocess.run kills the shell; the command lingers when the shell had
\* not replaced itself with it and the signal did not reach it.
CommandEvents(ver) ==
    {[opened |-> FALSE, outcome |-> "none", stderr |-> FALSE, garbled |-> FALSE,
      lingers |-> FALSE],
     [opened |-> TRUE, outcome |-> "spawn_exc", stderr |-> FALSE, garbled |-> FALSE,
      lingers |-> FALSE]}
    \cup [opened : {TRUE}, outcome : {"exit0", "nonzero"},
          stderr : BOOLEAN, garbled : {FALSE}, lingers : {FALSE}]
    \cup [opened : {TRUE}, outcome : {"interrupt"},
          stderr : BOOLEAN, garbled : {FALSE}, lingers : BOOLEAN]
    \cup (IF ver = "base" THEN {}
          ELSE [opened : {TRUE}, outcome : {"exit0", "nonzero"},
                stderr : {TRUE}, garbled : {TRUE}, lingers : {FALSE}]
               \cup [opened : {TRUE}, outcome : {"timeout"},
                     stderr : BOOLEAN, garbled : {FALSE}, lingers : BOOLEAN])

\* the command was handed to the shell
Ran(ev) == ev.opened /\ ev.outcome # "spawn_exc"

\* the command did what a healthy command does
Normal(ev) == ev.opened /\ ev.outcome = "exit0" /\ ~ev.stderr

\* run_command: its return value, the messages it passes to log_error, the
\* messages its "except Exception" handler passes to log_error, whether the
\* first log_error call is inside the try block (so that what it raises
\* reaches that handler), and what the command itself appends to the error
\* log (base: stderr=err)
run_command(ver, ev) ==
    [ok |-> ver # "base" /\ ev.opened /\ ev.outcome = "exit0" /\ ~ev.garbled,
     msgs |->
        CASE ~ev.opened \/ ev.outcome = "spawn_exc" \/ ev.garbled ->
                IF ver = "v1" THEN <<"cmd_exception", "cmd_exception_detail">>
                ELSE <<"cmd_exception">>
          [] ev.opened /\ ev.outcome = "nonzero" ->
                IF ~ev.stderr \/ ver = "base" THEN <<"cmd_failed">>
                ELSE IF ver = "v1" THEN <<"cmd_failed", "stderr_label", "cmd_stderr">>
                ELSE <<"cmd_failed", "cmd_stderr">>
          [] ev.opened /\ ev.outcome = "timeout" -> <<"cmd_timeout">>
          [] OTHER -> << >>,
     handler |-> IF ver = "v1" THEN <<"cmd_exception", "cmd_exception_detail">>
                 ELSE <<"cmd_exception">>,
     inTry |-> ev.opened /\ ev.outcome = "nonzero" /\ ~ev.garbled,
     raw |-> IF ver = "base" /\ Ran(ev) /\ ev.stderr THEN <<"stderr_raw">> ELSE << >>]

\* out_path of descriptor i of this run
ReportPath(i) == ReportPathOf(version, OUTPUT_DIR, i, archive, TIMESTAMP)

\* the descriptor the for loop takes next: the lists are walked front to back
NextDescriptor == idx + 1

\* main's loop body for the next descriptor: the progress line, run_command,
\* and the OK / FAILED (base: "saved") line.  out_path is the descriptor's
\* output file, noDir: it is in no existing directory, noTool: the command's
\* tool is not installed, title: the console after the progress line,
\* created: the file system once out_path is opened; fates: how the opens
\* of the error log of this step fare, in the order the code makes them.
RunReport ==
    /\ pc = "loop"
    /\ idx < NumReports
    /\ \E out_path \in {ReportPath(NextDescriptor)} :
       \E noDir \in {~CanOpen(out_path)},
          noTool \in {Tools[NextDescriptor] \in env.missing},
          title \in {Put(console, <<IF version = "base" THEN "section" ELSE "title">>)},
          created \in {open_w(files, out_path)} :
       \E ev \in CommandEvents(version) :
          LET rc == run_command(version, ev)
              \* a missing directory: open fails; a missing tool: the shell
              \* reports it on standard error and exits with status 127
              forced == \/ ~ev.opened /\ noDir
                        \/ Ran(ev) /\ noTool /\ ev.outcome = "nonzero"
              cmdcost == IF Normal(ev) \/ forced THEN 0 ELSE 1
              \* base opens the error log in the with statement, after the
              \* output file: the first open of the step
              withLog == version = "base" /\ ev.opened
              need == (IF withLog THEN 1 ELSE 0) + Len(rc.msgs)
                      + (IF withLog \/ rc.inTry THEN Len(rc.handler) ELSE 0)
          IN  /\ ev.opened => ~noDir
              /\ (noTool /\ Ran(ev))
                    => \/ ev.outcome = "nonzero" /\ ev.stderr /\ ~ev.garbled
                       \/ ev.outcome = "interrupt" /\ ~ev.lingers
              /\ faults + cmdcost <= MaxAbnormal
              /\ \E fates \in Fates(need) :
                    LET \* when that open fails the command is not run and the
                        \* "except Exception" handler takes over
                        logOpenFails == withLog /\ ~fates[1]
                        rest == IF withLog THEN Tail(fates) ELSE fates
                        ran == Ran(ev) /\ ~logOpenFails
                        r1 == log_error(version, title,
                                        IF ran THEN Put(errLog, rc.raw) ELSE errLog,
                                        IF logOpenFails THEN rc.handler ELSE rc.msgs,
                                        rest)
                        \* what log_error raises inside the try block is caught
                        \* by "except Exception", which calls log_error in turn
                        r == IF r1.raised /\ rc.inTry /\ ~logOpenFails
                             THEN LET r2 == log_error(version, r1.console, r1.errLog,
                                                      rc.handler,
                                                      SubSeq(rest, r1.calls + 1, Len(rest)))
                                  IN  [r2 EXCEPT !.calls = @ + r1.calls]
                             ELSE r1
                        used == r.calls + (IF withLog THEN 1 ELSE 0)
                        failed == Failures(fates)
                    IN  /\ \A i \in (used + 1)..need : fates[i]
                        /\ logOpenFails => Normal(ev)
                        /\ faults + cmdcost + failed <= MaxAbnormal
                        /\ faults' = faults + cmdcost + failed
                        /\ logFaults' = logFaults + failed
                        /\ running' = IF ev.lingers THEN [running EXCEPT !.report = @ + 1]
                                                       ELSE running
                        /\ files' = IF ev.opened THEN created ELSE files
                        /\ openFailed' = IF ev.opened THEN openFailed
                                         ELSE openFailed \cup {NextDescriptor}
                        /\ reportsRun' = IF ran THEN reportsRun + 1 ELSE reportsRun
                        /\ extCmds' = IF ran THEN extCmds + 1 ELSE extCmds
                        /\ exit0' = IF ran /\ ev.outcome = "exit0" THEN exit0 + 1 ELSE exit0
                        /\ errLog' = r.errLog
                        /\ IF ev.outcome = "interrupt" \/ r.raised
                           THEN /\ TopLevel(IF r.raised THEN "exception" ELSE "interrupt",
                                            r.console)
                                /\ UNCHANGED <<idx, success, last>>
                           ELSE /\ console' =
                                      Put(r.console,
                                          <<CASE version = "base" -> "saved"
                                              [] version # "base" /\ rc.ok -> "OK"
                                              [] OTHER -> "FAILED">>)
                                /\ success' = IF rc.ok THEN success + 1 ELSE success
                                /\ idx' = idx + 1
                                /\ last' = [n |-> NextDescriptor, opened |-> ev.opened,
                                            ran |-> ran,
                                            outcome |-> IF logOpenFails THEN "none"
                                                        ELSE ev.outcome,
                                            stderr |-> ev.stderr]
                                /\ pc' = IF idx + 1 = NumReports THEN "summary" ELSE "loop"
                                /\ UNCHANGED <<exitStatus, cause>>
    /\ UNCHANGED <<version, cmdline, given, env, archive, start_time, end_time,
                   OUTPUT_DIR, ERROR_LOG, dirs, summary>>

\* main after the loop: v1 and v2 print "k/N sections completed" and, when
\* k < N, a pointer to the error log; base prints no counts.  main returns
\* and the process ends with status 0.
Summary ==
    /\ pc = "summary"
    /\ summary' = IF version = "base" THEN << >> ELSE <<success, NumReports>>
    /\ console' =
          Put(console,
              CASE version = "base" -> <<"complete">>
                [] version # "base" /\ success < NumReports -> <<"summary", "see_log">>
                [] OTHER -> <<"summary">>)
    /\ Exit(0, "summary")
    /\ UNCHANGED <<openFailed, version, cmdline, given, env, archive, start_time, end_time,
                   OUTPUT_DIR, ERROR_LOG, dirs, files, errLog, idx, success, last,
                   exit0, reportsRun, extCmds, running, faults, logFaults>>

\* a command that was left running ends by itself
CommandEnds ==
    /\ \E c \in {"meta", "report"} :
          /\ running[c] > 0
          /\ running' = [running EXCEPT ![c] = @ - 1]
    /\ UNCHANGED <<version, cmdline, given, env, pc, archive, start_time, end_time,
                   OUTPUT_DIR, ERROR_LOG, dirs, files, errLog, console, summary, idx,
                   success, exitStatus, cause, last, openFailed, exit0,
                   reportsRun, extCmds, faults, logFaults>>

Next ==
    \/ ModuleInit
    \/ ReadArgs
    \/ PromptArchive
    \/ ReadMetadata
    \/ PromptStart
    \/ PromptEnd
    \/ Validate
    \/ CheckTools
    \/ Setup
    \/ RunReport
    \/ Summary
    \/ CommandEnds

Spec == Init /\ [][Next]_vars

\* the command-line path: no prompt is shown
NextArgs ==
    \/ ModuleInit
    \/ ReadArgs
    \/ Validate
    \/ CheckTools
    \/ Setup
    \/ RunReport
    \/ Summary
    \/ CommandEnds

SpecAgain == InitAgain /\ [][NextArgs]_vars

\* a command-line run up to the end of main's validation block
NextValidate ==
    \/ ModuleInit
    \/ ReadArgs
    \/ Validate

SpecTimes == InitTimes /\ [][NextValidate]_vars

----------------------------------------------------------------------------
(* Properties *)

Exited == pc = "exited"

\* main has its three inputs
Collected == archive # Unset /\ start_time # Unset /\ end_time # Unset

\* directories and files this run created or opened for writing
RunDirs == {d \in DOMAIN dirs : dirs[d] = 1}
RunFiles == {p \in DOMAIN files : files[p] = 1}

\* the run ended on its own account, not by an interrupt or an end of input
NotCutShort == cause \notin {"interrupt", "exception"}

MissingTools == Required \cap env.missing

\* C1: in every version, a run whose archive path is empty or names no
\* regular file ends with a fatal diagnostic and status 1, having created
\* no output directory, no error log and no report file.
C1_NothingCreatedForBadArchive ==
    (Exited /\ NotCutShort /\ archive # Unset /\ ~ArchiveOk(archive))
        => /\ exitStatus = 1
           /\ console["archive_not_found"] > 0
           /\ RunDirs = {}
           /\ RunFiles = {}

\* C2: in every version, when a required executable is missing the run ends
\* with status 1 and no report descriptor's command is ever executed.
C2_NoReportWithoutTools ==
    MissingTools # {}
        => /\ reportsRun = 0
           /\ (Exited /\ NotCutShort) => exitStatus = 1

\* C3 as stated: whenever a start or end time does not match the pattern, on
\* the command-line and on the interactive path, the run ends with status 1
\* and no external command has been invoked before that.
C3_NoCommandBeforeTimeRejected ==
    (Exited /\ Collected
       /\ (~TimeOk(version, start_time) \/ ~TimeOk(version, end_time)))
        => /\ exitStatus = 1
           /\ extCmds = 0

\* C3 amended: whenever main's validation is given a start or end time that
\* the version's validate_time rejects, the run ends there with status 1 (by
\* sys.exit(1), or in base and v1 by the exception of a failed append to the
\* error log) and no report descriptor has been attempted; no external
\* command at all has been invoked on the command-line path and in base, and
\* at most one on the interactive path of v1 and v2: the metadata command,
\* which is started right after the archive prompt whatever the archive name
\* is (it has run by the time of the time prompts unless it could not be
\* spawned, which the console shows).
C3_TimeRejectedBeforeReports ==
    /\ (Exited /\ Collected
          /\ (~TimeOk(version, start_time) \/ ~TimeOk(version, end_time)))
           => /\ exitStatus = 1
              /\ \/ cause = "validation"
                 \/ cause = "exception" /\ version # "v2" /\ logFaults > 0
              /\ reportsRun = 0
              /\ idx = 0
              /\ openFailed = {}
    /\ pc \in {"module", "main", "metadata", "prompt_start", "prompt_end", "validate"}
          => /\ reportsRun = 0
             /\ extCmds <= (IF ~cmdline /\ version # "base" THEN 1 ELSE 0)
    /\ (pc \in {"prompt_start", "prompt_end", "validate"} /\ ~cmdline /\ version # "base")
          => (extCmds = 1 \/ console["meta_exception"] > 0)

\* C3 witness: an interactive v1 run that ran the metadata command and was
\* then rejected for its end time
C3_Witness ==
    /\ Exited /\ Collected
    /\ version = "v1" /\ ~cmdline
    /\ ArchiveOk(archive) /\ TimeOk(version, start_time) /\ ~TimeOk(version, end_time)
    /\ extCmds = 1
    /\ exitStatus = 1

\* C4: in every version, whatever the outcomes of the report commands, all N
\* descriptors are attempted and the summary printed on the console reports
\* k/N with k the number of commands that exited 0.
C4_SummaryCountsExitZero ==
    (Exited /\ cause = "summary")
        => /\ idx = NumReports
           /\ summary = <<exit0, NumReports>>

\* C5: the exit status is 0 whenever the run reaches the summary; it is 1
\* exactly when validation fails, a required tool is missing or an
\* unexpected exception reaches the top level; it is 130 when the user
\* interrupts the run.
C5_ExitStatus ==
    Exited
        => /\ cause = "summary" => exitStatus = 0
           /\ exitStatus = 1 <=> cause \in {"validation", "tool", "exception"}
           /\ cause = "interrupt" => exitStatus = 130
           /\ MissingTools # {} => cause # "summary"

\* lines of the error log that carry a command's standard error
StderrLines(log) == log["stderr_raw"] + log["cmd_stderr"]

\* C6: whenever a report command that was executed wrote on standard error,
\* that output is appended to the error log, whether the command exited 0,
\* exited non-zero or was killed by the timeout.
C6_StderrReachesLog ==
    [][(last'.n = last.n + 1 /\ last'.ran /\ last'.stderr)
          => StderrLines(errLog') > StderrLines(errLog)]_vars

\* C7: after run_command returns, the output file of every attempted
\* descriptor exists, unless it could not be opened; in that case the command
\* was not run, the failure is in the error log and the loop went on.  A run
\* that reaches the summary with every output file openable leaves exactly N
\* report files.
C7_OutputFilePerDescriptor ==
    /\ \A i \in 1..idx : i \notin openFailed => ReportPath(i) \in RunFiles
    /\ openFailed \subseteq 1..idx
    /\ errLog["cmd_exception"] >= Cardinality(openFailed)
    /\ reportsRun + Cardinality(openFailed)
          <= idx + (IF cause \in {"interrupt", "exception"} THEN 1 ELSE 0)
    /\ (last.n > 0 /\ ~last.opened) => (last.n \in openFailed /\ ~last.ran)
    /\ (Exited /\ cause = "summary")
          => /\ idx = NumReports
             /\ openFailed = {} => Cardinality(RunFiles \ {ERROR_LOG}) = NumReports

\* the diagnostics of validation, of the tool and configuration checks, of
\* the metadata command and of the report commands
ValidationDiagnostics == {"archive_not_found", "bad_start", "bad_end", "bad_time"}
ToolDiagnostics == {"tool_missing", "install_hint", "config_missing"}
MetadataDiagnostics == {"meta_failed", "meta_timeout", "meta_exception"}
CommandDiagnostics == {"cmd_failed", "stderr_label", "cmd_stderr", "cmd_timeout",
                       "cmd_exception", "cmd_exception_detail"}
Diagnostics ==
    ValidationDiagnostics \cup ToolDiagnostics \cup MetadataDiagnostics
        \cup CommandDiagnostics

TopLevelMessages == {"traceback", "interrupted", "unexpected"}

\* the log_error calls whose message is not in the error log: log_error
\* prints its message once; the metadata step of v1 prints a line of its own
\* before each of its log_error calls
RECURSIVE Unlogged(_)
Unlogged(ks) ==
    IF ks = {} THEN 0
    ELSE LET k == CHOOSE x \in ks : TRUE
             calls == IF k \in MetadataDiagnostics THEN console[k] \div 2 ELSE console[k]
         IN  (calls - errLog[k]) + Unlogged(ks \ {k})

MatchesFormat(timestr) ==
    /\ Len(timestr) \in {Len(DatePattern), Len(DatePattern) + Len(SecPattern)}
    /\ MatchAt(DatePattern, timestr, 1)
    /\ Len(timestr) > Len(DatePattern) => MatchAt(SecPattern, timestr, Len(DatePattern) + 1)

\* C9: in every version, validation accepts a (start, end) pair exactly when
\* both strings have the format YYYY-MM-DD HH:MM[:SS].
C9_AcceptsExactlyTheFormat ==
    (pc \in {"toolcheck", "setup", "exited"} /\ ArchiveOk(archive))
        => (pc # "exited"
              <=> (MatchesFormat(start_time) /\ MatchesFormat(end_time)))

\* the files an earlier invocation left, and its error log
Earlier == PrevFiles(version, env.prev)
EarlierLog == ErrorLogOf(version, PrevDir(version, env.prev), env.prev.clock)

\* C10 as stated: the output directory of a run is created by that run, and
\* no file an earlier invocation left is truncated or overwritten.
C10_FreshDirectoryPerRun ==
    /\ OUTPUT_DIR \in DOMAIN dirs => dirs[OUTPUT_DIR] = 1
    /\ \A p \in Earlier : p \in DOMAIN files /\ files[p] = 0

\* the date and time of a validated time string up to the minute
Minute(timestr) == Slice(timestr, 0, Len(DatePattern))

\* the two invocations write to the same paths: always in base, when they
\* start in the same second in v1, when their time windows agree to the
\* minute in v2
SamePaths ==
    CASE version = "base" -> TRUE
      [] version = "v1"   -> env.prev.clock = env.clock
      [] version = "v2"   -> /\ Minute(env.prev.start) = Minute(start_time)
                             /\ Minute(env.prev.end) = Minute(end_time)

\* the descriptors whose progress line has been printed: the loop prints it
\* right before it calls run_command
Begun == 1..console[IF version = "base" THEN "section" ELSE "title"]

\* the paths this run has opened for writing: its error log, and the output
\* file of every descriptor it has begun, unless that open failed
OpenedForWriting ==
    {ERROR_LOG} \cup {ReportPath(i) : i \in Begun \ openFailed}

\* C10 amended: a run creates its output directory only if it is absent and
\* otherwise writes into the existing one; it removes no file of an earlier
\* invocation; and it truncates such a file exactly when it opens that path
\* for writing, as its own error log or as the output file of a descriptor
\* it attempts (a descriptor whose output file cannot be opened leaves the
\* earlier file as it was).  Its error log has the path of the earlier one
\* in base always, in v1 exactly when both runs start in the same second,
\* and in v2 exactly when both time windows agree to the minute; no earlier
\* file is truncated otherwise.
C10_OverwritesOnlySamePaths ==
    LET opened == OpenedForWriting
        same == SamePaths
        earlierDir == PrevDir(version, env.prev)
        earlierLog == EarlierLog
    IN  /\ \A p \in Earlier :
              /\ p \in DOMAIN files
              /\ files[p] = 1 <=> p \in opened
              /\ files[p] = 1 => same
        /\ earlierDir \in DOMAIN dirs
        /\ dirs[earlierDir] = 0
        /\ ERROR_LOG # Unset
              => /\ same <=> (ERROR_LOG = earlierLog)
                 /\ same <=> (files[earlierLog] = 1)
                 /\ OUTPUT_DIR \in DOMAIN dirs
                 /\ (OUTPUT_DIR = earlierDir) <=> (dirs[OUTPUT_DIR] = 0)

\* C10 witness: a v2 run for 12:00:30 that has overwritten the error log and
\* every report of an earlier run for 12:00 but one, whose output file it
\* could not open
C10_Witness ==
    /\ version = "v2"
    /\ Exited /\ cause = "summary"
    /\ env.prev # NoPrev
    /\ start_time = T_1200_30 /\ env.prev.start = T_1200
    /\ Cardinality(openFailed) = 1
    /\ \A i \in openFailed : ReportPath(i) \in Earlier /\ files[ReportPath(i)] = 0
    /\ Cardinality({p \in Earlier : files[p] = 1}) = NumReports

\* the reports this run has opened for writing
RunReports == RunFiles \ {ERROR_LOG}

\* the step attempts a descriptor: its output file is opened, or the opening
\* fails, or its command is handed to the shell
Attempts ==
    \/ idx' # idx
    \/ reportsRun' # reportsRun
    \/ openFailed' # openFailed
    \/ {p \in DOMAIN files' : files'[p] = 1} \ {ERROR_LOG'} # RunReports

\* C11: once validation and the tool check have passed, the descriptors are
\* attempted one at a time in list order, each once: every step that attempts
\* a descriptor is a step of the loop of a validated run, attempts the one
\* descriptor that follows the last one attempted, which has not been
\* attempted before, and starts at most one command, and no command of an
\* earlier descriptor is still running when it does; the summary is printed
\* only after the last descriptor of the list has been attempted.
C11_OneAtATimeInListOrder ==
    [][/\ Attempts =>
            /\ pc = "loop"
            /\ ArchiveOk(archive) /\ TimeOk(version, start_time) /\ TimeOk(version, end_time)
            /\ version # "v2" => MissingTools = {}
            /\ last.n = idx /\ idx < NumReports
            /\ ReportPath(idx + 1) \notin RunReports
            /\ idx + 1 \notin openFailed
            /\ {p \in DOMAIN files' : files'[p] = 1} \ {ERROR_LOG'}
                    \subseteq RunReports \cup {ReportPath(idx + 1)}
            /\ openFailed' \subseteq openFailed \cup {idx + 1}
            /\ reportsRun' \in {reportsRun, reportsRun + 1}
            /\ reportsRun' # reportsRun => running.report = 0
            /\ \/ idx' = idx + 1 /\ last'.n = idx + 1 /\ pc' \in {"loop", "summary"}
               \/ idx' = idx /\ last' = last /\ pc' = "exited"
                    /\ cause' \in {"interrupt", "exception"}
       /\ (pc' = "summary" /\ pc # "summary") => idx' = NumReports
       /\ (cause' = "summary" /\ cause # "summary")
            => /\ pc = "summary" /\ idx = NumReports /\ last.n = NumReports
               /\ \A i \in 1..NumReports :
                      (ReportPath(i) \in RunReports) # (i \in openFailed)
               /\ UNCHANGED <<idx, reportsRun, openFailed, files>>]_vars

====
